---- MODULE Spec2Model ----
(***************************************************************************)
(* ViewRequest streaming iterator of couchbase/views.py.                   *)
(*                                                                         *)
(* A ViewRequest wraps a raw, pull-based row source (_streaming_result).   *)
(* Each pull of the raw source either yields an item or raises.  The kinds *)
(* of pull outcomes are:                                                   *)
(*   "row"                       a data row payload that deserializes      *)
(*   "badrow"                    a payload whose deserialization raises    *)
(*   "design_document_not_found" an in-stream error marker                 *)
(*   "view_not_found"            an in-stream error marker                 *)
(*   "None"                      the end-of-stream sentinel                *)
(*   "views_response"            the metadata trailer                      *)
(*   "Exception"                 the pull raises a non-Couchbase exception *)
(*   "CouchbaseException"        the pull raises a Couchbase exception     *)
(*   "StopIteration"             the pull (or the deserialization of the   *)
(*                               pulled item) raises StopIteration         *)
(* A source that has run out of items raises StopIteration on every pull.  *)
(* The k-th data row of a source carries the payload k (its position), so  *)
(* rows are pairwise distinct and their order is observable.               *)
(***************************************************************************)
EXTENDS Integers, Sequences, FiniteSets, TLC

VARIABLES
    vr,       \* vr[i]: the fields of ViewRequest instance i and the log of its calls
    source,   \* source[i]: the raw row source instance i owns (kinds, in order)
    opts,     \* the ViewOptions given to the ViewQuery builder (option -> value)
    params    \* the mapping as_encodable() returned (empty before the call)

vars == <<vr, source, opts, params>>

\* Longest raw source enumerated over all kinds of items.
MaxLen == 3

\* Most data rows of a raw source that follows the streaming protocol.
MaxRows == 3

\* Most __next__ calls made directly by the caller on one instance.
MaxCalls == MaxRows + 3

Instances == {1}

ErrorMarkers == {"design_document_not_found", "view_not_found"}

Kinds == {"row", "badrow", "None", "views_response",
          "Exception", "CouchbaseException", "StopIteration"} \cup ErrorMarkers

RECURSIVE SeqsUpTo(_)
SeqsUpTo(n) ==
    IF n = 0 THEN {<<>>}
    ELSE LET shorter == SeqsUpTo(n - 1)
         IN  shorter \cup {Append(s, k) : s \in {t \in shorter : Len(t) = n - 1}, k \in Kinds}

\* The raw sources the transport produces when it follows the protocol: n data
\* rows, then the end sentinel and the metadata trailer, or an in-stream error
\* marker, or a failure of the pull.
Rows(n) == [k \in 1..n |-> "row"]

Tails == {<<"None", "views_response">>, <<"Exception">>} \cup {<<m>> : m \in ErrorMarkers}

ProtocolSources == {Rows(n) \o t : n \in 0..MaxRows, t \in Tails}

Sources == SeqsUpTo(MaxLen) \cup ProtocolSources

\* The outcome of a call as its caller sees it: the value returned or the
\* exception raised (kind), the row returned by __next__ (row) and the list
\* returned by execute (rows).
Outcome(op, kind, row, rows) == [op |-> op, kind |-> kind, row |-> row, rows |-> rows]

\* ViewRequestLogic.__init__: nothing submitted, no source bound, no metadata.
NewRequest ==
    [started_streaming |-> FALSE,
     done_streaming    |-> FALSE,
     metadata          |-> "None",
     streaming_result  |-> "None",
     pos               |-> 0,
     pulled_by         |-> <<>>,
     results           |-> <<>>,
     submits           |-> 0,
     next_calls        |-> 0,
     outcome           |-> Outcome("init", "self", 0, <<>>)]

\* next(self._streaming_result): the kind of the k-th pull of a source.
ItemAt(src, k) == IF k <= Len(src) THEN src[k] ELSE "StopIteration"

\* ErrorMapper.build_exception: the domain exception of an error marker.
build_exception(marker) ==
    IF marker = "design_document_not_found" THEN "DesignDocumentNotFoundException"
    ELSE "ViewNotFoundException"

MappedExceptions == {build_exception(m) : m \in ErrorMarkers}

\* The exceptions that `except CouchbaseException` catches.
CouchbaseExceptions == MappedExceptions \cup {"CouchbaseException", "AlreadyQueriedException"}

\* ViewRequestLogic._submit_query: binds the raw source and marks the request started.
_submit_query(st) ==
    [st EXCEPT !.started_streaming = TRUE,
               !.streaming_result = "stream",
               !.submits = @ + 1]

\* ViewRequestLogic._set_metadata on the pulled trailer: the exception it
\* raises, or "ok" when the metadata is stored.
_set_metadata(kind) ==
    IF kind = "views_response" THEN "ok"
    ELSE IF kind \in ErrorMarkers THEN build_exception(kind)
    ELSE "AttributeError"

\* One pull of the raw source by the step `by` ("row" or "metadata").
Pull(st, by) ==
    [st EXCEPT !.pos = @ + 1, !.pulled_by = Append(@, by)]

\* ViewRequest._get_metadata: [st, raised, msg], raised = "ok" or the exception
\* raised, msg = the exception whose message a wrapping exception carries.
_get_metadata(st, src) ==
    IF st.streaming_result = "None"
    THEN [st |-> st, raised |-> "InternalSDKException", msg |-> "TypeError"]
    ELSE LET kind == ItemAt(src, st.pos + 1)
             st1  == Pull(st, "metadata")
             res  == IF kind \in {"Exception", "CouchbaseException", "StopIteration"}
                     THEN kind
                     ELSE _set_metadata(kind)
         IN  IF res = "ok"
             THEN [st |-> [st1 EXCEPT !.metadata = "ViewMetaData"], raised |-> "ok", msg |-> ""]
             ELSE IF res \in CouchbaseExceptions
             THEN [st |-> st1, raised |-> res, msg |-> ""]
             ELSE [st |-> st1, raised |-> "InternalSDKException", msg |-> res]

\* _get_next_row without the `row is None` test: the sentinel reaches the serializer.
_get_next_row_no_sentinel(st, src) ==
    IF st.done_streaming
    THEN [st |-> st, kind |-> "None", row |-> 0]
    ELSE IF st.streaming_result = "None"
    THEN [st |-> st, kind |-> "TypeError", row |-> 0]
    ELSE LET kind == ItemAt(src, st.pos + 1)
             st1  == Pull(st, "row")
         IN  IF kind \in ErrorMarkers
             THEN [st |-> st1, kind |-> build_exception(kind), row |-> 0]
             ELSE IF kind = "row"
             THEN [st |-> st1, kind |-> "row", row |-> st1.pos]
             ELSE IF kind \in {"badrow", "views_response", "None"}
             THEN [st |-> st1, kind |-> "DeserializeError", row |-> 0]
             ELSE [st |-> st1, kind |-> kind, row |-> 0]

\* _get_next_row without the isinstance test: an error marker reaches the serializer.
_get_next_row_no_marker_check(st, src) ==
    IF st.done_streaming
    THEN [st |-> st, kind |-> "None", row |-> 0]
    ELSE IF st.streaming_result = "None"
    THEN [st |-> st, kind |-> "TypeError", row |-> 0]
    ELSE LET kind == ItemAt(src, st.pos + 1)
             st1  == Pull(st, "row")
         IN  IF kind = "None"
             THEN [st |-> st1, kind |-> "StopIteration", row |-> 0]
             ELSE IF kind = "row"
             THEN [st |-> st1, kind |-> "row", row |-> st1.pos]
             ELSE IF kind \in {"badrow", "views_response"} \cup ErrorMarkers
             THEN [st |-> st1, kind |-> "DeserializeError", row |-> 0]
             ELSE [st |-> st1, kind |-> kind, row |-> 0]

\* _get_next_row without the done_streaming test: it pulls again after Done.
_get_next_row_no_done_check(st, src) ==
    IF st.streaming_result = "None"
    THEN [st |-> st, kind |-> "TypeError", row |-> 0]
    ELSE LET kind == ItemAt(src, st.pos + 1)
             st1  == Pull(st, "row")
         IN  IF kind \in ErrorMarkers
             THEN [st |-> st1, kind |-> build_exception(kind), row |-> 0]
             ELSE IF kind = "None"
             THEN [st |-> st1, kind |-> "StopIteration", row |-> 0]
             ELSE IF kind = "row"
             THEN [st |-> st1, kind |-> "row", row |-> st1.pos]
             ELSE IF kind \in {"badrow", "views_response"}
             THEN [st |-> st1, kind |-> "DeserializeError", row |-> 0]
             ELSE [st |-> st1, kind |-> kind, row |-> 0]

\* _get_next_row that returns the row fetched by the previous pull.
_get_next_row_stale_row(st, src) ==
    IF st.done_streaming
    THEN [st |-> st, kind |-> "None", row |-> 0]
    ELSE IF st.streaming_result = "None"
    THEN [st |-> st, kind |-> "TypeError", row |-> 0]
    ELSE LET kind == ItemAt(src, st.pos + 1)
             st1  == Pull(st, "row")
         IN  IF kind \in ErrorMarkers
             THEN [st |-> st1, kind |-> build_exception(kind), row |-> 0]
             ELSE IF kind = "None"
             THEN [st |-> st1, kind |-> "StopIteration", row |-> 0]
             ELSE IF kind = "row"
             THEN [st |-> st1, kind |-> "row", row |-> st.pos]
             ELSE IF kind \in {"badrow", "views_response"}
             THEN [st |-> st1, kind |-> "DeserializeError", row |-> 0]
             ELSE [st |-> st1, kind |-> kind, row |-> 0]

\* _get_next_row in which a StopIteration raised by the pull surfaces as a RuntimeError.
_get_next_row_end_as_runtime_error(st, src) ==
    IF st.done_streaming
    THEN [st |-> st, kind |-> "None", row |-> 0]
    ELSE IF st.streaming_result = "None"
    THEN [st |-> st, kind |-> "TypeError", row |-> 0]
    ELSE LET kind == ItemAt(src, st.pos + 1)
             st1  == Pull(st, "row")
         IN  IF kind \in ErrorMarkers
             THEN [st |-> st1, kind |-> build_exception(kind), row |-> 0]
             ELSE IF kind = "None"
             THEN [st |-> st1, kind |-> "StopIteration", row |-> 0]
             ELSE IF kind = "row"
             THEN [st |-> st1, kind |-> "row", row |-> st1.pos]
             ELSE IF kind \in {"badrow", "views_response"}
             THEN [st |-> st1, kind |-> "DeserializeError", row |-> 0]
             ELSE IF kind = "StopIteration"
             THEN [st |-> st1, kind |-> "RuntimeError", row |-> 0]
             ELSE [st |-> st1, kind |-> kind, row |-> 0]

\* ViewRequest._get_next_row: [st, kind, row]; kind is "row" or "None" for a
\* returned value and the exception's name for a raised one.
_get_next_row(st, src) ==
    IF st.done_streaming
    THEN [st |-> st, kind |-> "None", row |-> 0]
    ELSE IF st.streaming_result = "None"
    THEN [st |-> st, kind |-> "TypeError", row |-> 0]
    ELSE LET kind == ItemAt(src, st.pos + 1)
             st1  == Pull(st, "row")
         IN  IF kind \in ErrorMarkers
             THEN [st |-> st1, kind |-> build_exception(kind), row |-> 0]
             ELSE IF kind = "None"
             THEN [st |-> st1, kind |-> "StopIteration", row |-> 0]
             ELSE IF kind = "row"
             THEN [st |-> st1, kind |-> "row", row |-> st1.pos]
             ELSE IF kind \in {"badrow", "views_response"}
             THEN [st |-> st1, kind |-> "DeserializeError", row |-> 0]
             ELSE [st |-> st1, kind |-> kind, row |-> 0]

\* What the caller of __next__ sees, set as the outcome and appended to the log
\* of this instance's __next__ calls (started, done: the state of the request
\* when the call was made; msg: the exception whose message a wrapping
\* exception carries).
Seen(st, before, kind, row, msg) ==
    [st EXCEPT !.outcome = Outcome("next", kind, row, <<>>),
               !.results = Append(@, [kind |-> kind, row |-> row, msg |-> msg,
                                      started |-> before.started_streaming,
                                      done |-> before.done_streaming])]

\* __next__ with a best-effort metadata fetch when a Couchbase exception ends the call.
__next___metadata_on_error(st, src) ==
    LET r   == _get_next_row([st EXCEPT !.next_calls = @ + 1], src)
        st1 == r.st
    IN  IF r.kind = "StopIteration"
        THEN LET m == _get_metadata([st1 EXCEPT !.done_streaming = TRUE], src)
             IN  IF m.raised = "ok"
                 THEN Seen(m.st, st, "StopIteration", 0, "")
                 ELSE Seen(m.st, st, m.raised, 0, m.msg)
        ELSE IF r.kind \in {"row", "None"}
        THEN Seen(st1, st, r.kind, r.row, "")
        ELSE IF r.kind \in CouchbaseExceptions
        THEN Seen(_get_metadata([st1 EXCEPT !.done_streaming = TRUE], src).st, st, r.kind, 0, "")
        ELSE Seen(st1, st, "InternalSDKException", 0, r.kind)

\* __next__ that stores the metadata without marking the request done.
__next___no_done(st, src) ==
    LET r   == _get_next_row([st EXCEPT !.next_calls = @ + 1], src)
        st1 == r.st
    IN  IF r.kind = "StopIteration"
        THEN LET m == _get_metadata(st1, src)
             IN  IF m.raised = "ok"
                 THEN Seen(m.st, st, "StopIteration", 0, "")
                 ELSE Seen(m.st, st, m.raised, 0, m.msg)
        ELSE IF r.kind \in {"row", "None"}
        THEN Seen(st1, st, r.kind, r.row, "")
        ELSE IF r.kind \in CouchbaseExceptions
        THEN Seen(st1, st, r.kind, 0, "")
        ELSE Seen(st1, st, "InternalSDKException", 0, r.kind)

\* __next__ that treats every non-Couchbase exception as the end of the sequence.
__next___swallow_errors(st, src) ==
    LET r   == _get_next_row([st EXCEPT !.next_calls = @ + 1], src)
        st1 == r.st
    IN  IF r.kind = "StopIteration"
        THEN LET m == _get_metadata([st1 EXCEPT !.done_streaming = TRUE], src)
             IN  IF m.raised = "ok"
                 THEN Seen(m.st, st, "StopIteration", 0, "")
                 ELSE Seen(m.st, st, m.raised, 0, m.msg)
        ELSE IF r.kind \in {"row", "None"}
        THEN Seen(st1, st, r.kind, r.row, "")
        ELSE IF r.kind \in CouchbaseExceptions
        THEN Seen(st1, st, r.kind, 0, "")
        ELSE Seen(st1, st, "StopIteration", 0, "")

\* __next__ that pulls once more when the row step fails with a non-Couchbase exception.
__next___retry_once(st, src) ==
    LET r   == _get_next_row([st EXCEPT !.next_calls = @ + 1], src)
        st1 == r.st
    IN  IF r.kind = "StopIteration"
        THEN LET m == _get_metadata([st1 EXCEPT !.done_streaming = TRUE], src)
             IN  IF m.raised = "ok"
                 THEN Seen(m.st, st, "StopIteration", 0, "")
                 ELSE Seen(m.st, st, m.raised, 0, m.msg)
        ELSE IF r.kind \in {"row", "None"}
        THEN Seen(st1, st, r.kind, r.row, "")
        ELSE IF r.kind \in CouchbaseExceptions
        THEN Seen(st1, st, r.kind, 0, "")
        ELSE LET r2 == _get_next_row(st1, src)
             IN  IF r2.kind = "row"
                 THEN Seen(r2.st, st, "row", r2.row, "")
                 ELSE Seen(r2.st, st, "InternalSDKException", 0, r.kind)

\* __next__ that signals the end of the sequence even when the metadata retrieval fails.
__next___end_despite_failure(st, src) ==
    LET r   == _get_next_row([st EXCEPT !.next_calls = @ + 1], src)
        st1 == r.st
    IN  IF r.kind = "StopIteration"
        THEN LET m == _get_metadata([st1 EXCEPT !.done_streaming = TRUE], src)
             IN  Seen(m.st, st, "StopIteration", 0, "")
        ELSE IF r.kind \in {"row", "None"}
        THEN Seen(st1, st, r.kind, r.row, "")
        ELSE IF r.kind \in CouchbaseExceptions
        THEN Seen(st1, st, r.kind, 0, "")
        ELSE Seen(st1, st, "InternalSDKException", 0, r.kind)

\* ViewRequest.__next__
__next__(st, src) ==
    LET r   == _get_next_row([st EXCEPT !.next_calls = @ + 1], src)
        st1 == r.st
    IN  IF r.kind = "StopIteration"
        THEN LET m == _get_metadata([st1 EXCEPT !.done_streaming = TRUE], src)
             IN  IF m.raised = "ok"
                 THEN Seen(m.st, st, "StopIteration", 0, "")
                 ELSE Seen(m.st, st, m.raised, 0, m.msg)
        ELSE IF r.kind \in {"row", "None"}
        THEN Seen(st1, st, r.kind, r.row, "")
        ELSE IF r.kind \in CouchbaseExceptions
        THEN Seen(st1, st, r.kind, 0, "")
        ELSE Seen(st1, st, "InternalSDKException", 0, r.kind)

\* __iter__ without the done_streaming test.
__iter___no_done_check(st) ==
    LET st1 == IF ~st.started_streaming THEN _submit_query(st) ELSE st
    IN  [st1 EXCEPT !.outcome = Outcome("iter", "self", 0, <<>>)]

\* __iter__ that rejects every call but the first.
__iter___only_once(st) ==
    IF st.done_streaming \/ st.started_streaming
    THEN [st EXCEPT !.outcome = Outcome("iter", "AlreadyQueriedException", 0, <<>>)]
    ELSE [_submit_query(st) EXCEPT !.outcome = Outcome("iter", "self", 0, <<>>)]

\* __iter__ that submits the query on every call.
__iter___always_submit(st) ==
    IF st.done_streaming
    THEN [st EXCEPT !.outcome = Outcome("iter", "AlreadyQueriedException", 0, <<>>)]
    ELSE [_submit_query(st) EXCEPT !.outcome = Outcome("iter", "self", 0, <<>>)]

\* ViewRequest.__iter__
__iter__(st) ==
    IF st.done_streaming
    THEN [st EXCEPT !.outcome = Outcome("iter", "AlreadyQueriedException", 0, <<>>)]
    ELSE LET st1 == IF ~st.started_streaming THEN _submit_query(st) ELSE st
         IN  [st1 EXCEPT !.outcome = Outcome("iter", "self", 0, <<>>)]

\* list(self) after iter(self): __next__ until it raises.  A __next__ that
\* returns None does so on every later call too, so the list never completes.
RECURSIVE Drain(_, _, _)
Drain(st, src, acc) ==
    LET st1 == __next__(st, src)
    IN  IF st1.outcome.kind = "row"
        THEN Drain(st1, src, Append(acc, st1.outcome.row))
        ELSE IF st1.outcome.kind = "None"
        THEN [st1 EXCEPT !.outcome = Outcome("execute", "nontermination", 0, <<>>)]
        ELSE IF st1.outcome.kind = "StopIteration"
        THEN [st1 EXCEPT !.outcome = Outcome("execute", "list", 0, acc)]
        ELSE [st1 EXCEPT !.outcome = Outcome("execute", st1.outcome.kind, 0, <<>>)]

\* execute that returns the rows collected so far when the iteration raises.
execute_partial_list(st, src) ==
    LET st1 == __iter__(st)
    IN  IF st1.outcome.kind = "AlreadyQueriedException"
        THEN [st1 EXCEPT !.outcome = Outcome("execute", "AlreadyQueriedException", 0, <<>>)]
        ELSE LET d    == Drain(st1, src, <<>>)
                 new  == SubSeq(d.results, Len(st.results) + 1, Len(d.results))
                 rows == SelectSeq(new, LAMBDA e : e.kind = "row")
             IN  IF d.outcome.kind = "list" THEN d
                 ELSE [d EXCEPT !.outcome =
                          Outcome("execute", "list", 0, [k \in 1..Len(rows) |-> rows[k].row])]

\* ViewRequest.execute
execute(st, src) ==
    LET st1 == __iter__(st)
    IN  IF st1.outcome.kind = "AlreadyQueriedException"
        THEN [st1 EXCEPT !.outcome = Outcome("execute", "AlreadyQueriedException", 0, <<>>)]
        ELSE Drain(st1, src, <<>>)

\* ViewRequestLogic.metadata: returns the stored metadata, None while unset.
metadata(st) == [st EXCEPT !.outcome = Outcome("metadata", st.metadata, 0, <<>>)]

\* No ViewQuery is being built.
NoQuery ==
    /\ opts = <<>>
    /\ params = <<>>

Init ==
    /\ vr = [i \in Instances |-> NewRequest]
    /\ source \in [Instances -> Sources]
    /\ NoQuery

\* iter(view_request)
Iter(i) ==
    /\ vr' = [vr EXCEPT ![i] = __iter__(vr[i])]
    /\ UNCHANGED <<source, opts, params>>

\* A call that pulls from the raw source is one of at most Len(source) + 1;
\* the calls that cannot pull (NotStarted, Done) are counted up to MaxCalls.
MayCall(st) == st.next_calls < MaxCalls \/ (st.started_streaming /\ ~st.done_streaming)

\* NextRow on a class whose done flag is a class attribute shared by all instances.
NextRow_shared_done(i) ==
    /\ MayCall(vr[i])
    /\ LET new == __next__(vr[i], source[i])
       IN  vr' = [j \in DOMAIN vr |->
                    IF j = i THEN new
                    ELSE [vr[j] EXCEPT !.done_streaming = @ \/ new.done_streaming]]
    /\ UNCHANGED <<source, opts, params>>

\* next(view_request)
NextRow(i) ==
    /\ MayCall(vr[i])
    /\ vr' = [vr EXCEPT ![i] = __next__(vr[i], source[i])]
    /\ UNCHANGED <<source, opts, params>>

\* view_request.execute()
Execute(i) ==
    /\ MayCall(vr[i])
    /\ vr' = [vr EXCEPT ![i] = execute(vr[i], source[i])]
    /\ UNCHANGED <<source, opts, params>>

\* view_request.metadata()
Metadata(i) ==
    /\ vr' = [vr EXCEPT ![i] = metadata(vr[i])]
    /\ UNCHANGED <<source, opts, params>>

Next ==
    \E i \in Instances :
        \/ Iter(i)
        \/ NextRow(i)
        \/ Execute(i)

Spec == Init /\ [][Next]_vars

----------------------------------------------------------------------------
\* Two ViewRequest instances, each with its own raw source, driven in any
\* interleaving of whole calls (each instance is used by one caller at a time).

BothInstances == {1, 2}

\* The raw sources of the two-instance runs: a complete stream, a stream cut
\* by an error marker, and a source whose first pull fails.
TwoSources == {<<"row", "None", "views_response">>,
               <<"row", "design_document_not_found">>,
               <<"Exception">>}

InitTwo ==
    /\ vr = [i \in BothInstances |-> NewRequest]
    /\ source \in [BothInstances -> TwoSources]
    /\ NoQuery

NextTwo ==
    \E i \in BothInstances :
        \/ Iter(i)
        \/ NextRow(i)
        \/ Execute(i)
        \/ Metadata(i)

SpecTwo == InitTwo /\ [][NextTwo]_vars

----------------------------------------------------------------------------
\* The ViewQuery builder: ViewQuery.create_view_query_object(bucket, document,
\* view, opts) and ViewQuery.as_encodable().

\* Most options set at once in one ViewOptions.
MaxOptions == 2

BooleanOptions == {"debug", "group", "inclusive_end", "reduce"}

NumberOptions == {"group_level", "limit", "skip"}

JsonOptions == {"key", "startkey", "endkey"}

EnumOptions == {"namespace", "on_error", "order", "scan_consistency"}

StringOptions == {"client_context_id", "endkey_docid", "startkey_docid", "serializer"}

OptionNames ==
    BooleanOptions \cup NumberOptions \cup JsonOptions \cup EnumOptions
        \cup StringOptions \cup {"keys", "timeout"}

\* The timeout values given: a timedelta (seconds and microseconds), an int
\* (seconds) or a float (seconds, written here in tenths of a second).
TimeoutValues ==
    {[form |-> "timedelta", seconds |-> 20, microseconds |-> 0],
     [form |-> "timedelta", seconds |-> 25, microseconds |-> 500000],
     [form |-> "int", seconds |-> 20],
     [form |-> "int", seconds |-> 0],
     [form |-> "float", tenths |-> 255],
     [form |-> "float", tenths |-> 200]}

\* The values an option is given here.
OptionValues(o) ==
    IF o \in BooleanOptions THEN {TRUE, FALSE}
    ELSE IF o \in NumberOptions THEN {0, 10}
    ELSE IF o \in JsonOptions THEN {"test-key"}
    ELSE IF o = "keys" THEN {<<"test-key1", "test-key2">>}
    ELSE IF o = "namespace" THEN {"DEVELOPMENT", "PRODUCTION"}
    ELSE IF o = "on_error" THEN {"CONTINUE", "STOP"}
    ELSE IF o = "order" THEN {"ASCENDING", "DESCENDING"}
    ELSE IF o = "scan_consistency" THEN {"REQUEST_PLUS"}
    ELSE IF o = "timeout" THEN TimeoutValues
    ELSE {"landmark_11769"}

\* The options f with option o set to v as well.
WithOption(f, o, v) == [x \in DOMAIN f \cup {o} |-> IF x = o THEN v ELSE f[x]]

\* Every ViewOptions that sets at most n options.
RECURSIVE OptionsUpTo(_)
OptionsUpTo(n) ==
    IF n = 0 THEN {<<>>}
    ELSE LET fewer == OptionsUpTo(n - 1)
         IN  fewer \cup UNION {UNION {{WithOption(f, o, v) : v \in OptionValues(o)}
                                      : o \in OptionNames \ DOMAIN f}
                               : f \in fewer}

\* json.dumps(value): the JSON text of a value.
json_dumps(v) == [json |-> v]

\* The value of an enum member.
enum_value(name) ==
    IF name = "DEVELOPMENT" THEN "development"
    ELSE IF name = "PRODUCTION" THEN "production"
    ELSE IF name = "CONTINUE" THEN "continue"
    ELSE IF name = "STOP" THEN "stop"
    ELSE IF name = "ASCENDING" THEN "ascending"
    ELSE IF name = "DESCENDING" THEN "descending"
    ELSE "request_plus"

\* A timeout encoded in milliseconds.
timeout_to_milliseconds(t) ==
    IF t.form = "timedelta" THEN t.seconds * 1000 + t.microseconds \div 1000
    ELSE IF t.form = "int" THEN t.seconds * 1000
    ELSE t.tenths * 100

\* The timeout option as an integer number of microseconds.
timeout_to_microseconds(t) ==
    IF t.form = "timedelta" THEN t.seconds * 1000000 + t.microseconds
    ELSE IF t.form = "int" THEN t.seconds * 1000000
    ELSE t.tenths * 100000

\* Field names equal to the option names.
field_name_as_given(o) == o

\* The field of the encoded mapping an option is stored under.
field_name(o) ==
    IF o = "endkey" THEN "end_key"
    ELSE IF o = "endkey_docid" THEN "end_key_doc_id"
    ELSE IF o = "startkey" THEN "start_key"
    ELSE IF o = "startkey_docid" THEN "start_key_doc_id"
    ELSE o

\* The encoded value of an option.
encode_option(o, v) ==
    IF o \in JsonOptions THEN json_dumps(v)
    ELSE IF o = "keys" THEN [k \in 1..Len(v) |-> json_dumps(v[k])]
    ELSE IF o \in EnumOptions THEN enum_value(v)
    ELSE IF o = "timeout" THEN timeout_to_microseconds(v)
    ELSE v

IdentityFields == {"bucket_name", "document_name", "view_name"}

\* ViewQuery.create_view_query_object: the query's parameters, the identity
\* fields plus one field per option that is set.
create_view_query_object(bucket, document, view, options) ==
    LET fields == {field_name(o) : o \in DOMAIN options}
        option(f) == CHOOSE o \in DOMAIN options : field_name(o) = f
    IN  [f \in IdentityFields \cup fields |->
            IF f = "bucket_name" THEN bucket
            ELSE IF f = "document_name" THEN document
            ELSE IF f = "view_name" THEN view
            ELSE encode_option(option(f), options[option(f)])]

\* ViewQuery.as_encodable
as_encodable(query) == query

InitQuery ==
    /\ vr = [i \in Instances |-> NewRequest]
    /\ source = [i \in Instances |-> <<>>]
    /\ opts \in OptionsUpTo(MaxOptions)
    /\ params = <<>>

\* query = ViewQuery.create_view_query_object(...); params = query.as_encodable()
AsEncodable ==
    /\ DOMAIN params = {}
    /\ params' = as_encodable(create_view_query_object("default", "test-ddoc", "test-view", opts))
    /\ UNCHANGED <<vr, source, opts>>

NextQuery == AsEncodable

SpecQuery == InitQuery /\ [][NextQuery]_vars

----------------------------------------------------------------------------
\* A consumer that keeps calling next() on a request whose raw source follows
\* the protocol to its end: rows, the end sentinel, the metadata trailer.

CompleteSources == {Rows(n) \o <<"None", "views_response">> : n \in 0..MaxRows}

InitLive ==
    /\ vr = [i \in Instances |-> NewRequest]
    /\ source \in [Instances -> CompleteSources]
    /\ NoQuery

\* The consumer does not stop calling next() while a call is possible.
SpecLive == InitLive /\ [][Next]_vars /\ \A i \in Instances : WF_vars(NextRow(i))

----------------------------------------------------------------------------
\* Observations used by the properties.

\* The __next__ calls of a request made after the query was submitted.
StreamLog(st) == SelectSeq(st.results, LAMBDA e : e.started)

\* The raw source starts with n data rows, the end sentinel and the trailer.
WellFormed(src, n) ==
    /\ Len(src) >= n + 2
    /\ \A k \in 1..n : src[k] = "row"
    /\ src[n + 1] = "None"
    /\ src[n + 2] = "views_response"

\* The raw source starts with k data rows and an in-stream error marker.
ErrorAfter(src, k) ==
    /\ Len(src) >= k + 1
    /\ \A j \in 1..k : src[j] = "row"
    /\ src[k + 1] \in ErrorMarkers

\* The number of metadata retrievals (pulls made by _get_metadata).
MetadataPulls(st) == Cardinality({k \in 1..Len(st.pulled_by) : st.pulled_by[k] = "metadata"})

\* The row step has pulled the None end sentinel.
SentinelObserved(st, src) ==
    \E k \in 1..Len(st.pulled_by) : st.pulled_by[k] = "row" /\ ItemAt(src, k) = "None"

\* The row step has pulled the None end sentinel or a StopIteration of the source.
EndSignalled(st, src) ==
    \E k \in 1..Len(st.pulled_by) :
        st.pulled_by[k] = "row" /\ ItemAt(src, k) \in {"None", "StopIteration"}

\* The exceptions __next__ raises other than the end of the sequence.
NextErrors == (CouchbaseExceptions \ {"AlreadyQueriedException"}) \cup {"InternalSDKException"}

----------------------------------------------------------------------------
\* C1: when the raw source yields N data rows, the end sentinel and the
\* metadata trailer, the calls of __next__ on the submitted request return
\* rows 1..N in source order, call N+1 raises StopIteration, no other call
\* returns a row, and once call N+1 has been made the metadata is populated.
C1_DrainDeliversRowsThenEnd ==
    \A i \in Instances : \A n \in 0..Len(source[i]) :
        WellFormed(source[i], n) =>
            LET log == StreamLog(vr[i])
            IN  /\ \A k \in 1..Len(log) :
                       IF k <= n THEN log[k].kind = "row" /\ log[k].row = k
                       ELSE log[k].kind # "row"
                /\ Len(log) >= n + 1 =>
                       /\ log[n + 1].kind = "StopIteration"
                       /\ vr[i].metadata = "ViewMetaData"

\* A source of two rows has been drained to its end.
C1_Witness ==
    \E i \in Instances :
        /\ WellFormed(source[i], 2)
        /\ Len(StreamLog(vr[i])) = 3
        /\ vr[i].metadata = "ViewMetaData"

\* C2: once a request is Done, iter() and execute() raise
\* AlreadyQueriedException and do not submit the query again.
C2_IterAfterDoneFails ==
    [][\A i \in Instances :
          (/\ vr[i].done_streaming
           /\ vr'[i] # vr[i]
           /\ vr'[i].outcome.op \in {"iter", "execute"})
          => /\ vr'[i].outcome.kind = "AlreadyQueriedException"
             /\ vr'[i].submits = vr[i].submits
             /\ vr'[i].pulled_by = vr[i].pulled_by]_vars

\* iter() has been refused on a Done request.
C2_Witness ==
    \E i \in Instances :
        /\ vr[i].done_streaming
        /\ vr[i].outcome.op = "iter"
        /\ vr[i].outcome.kind = "AlreadyQueriedException"
        /\ vr[i].submits = 1

\* C3: when the raw source yields k data rows and then an in-stream error
\* marker, the first k calls of __next__ return rows 1..k, call k+1 raises
\* the exception mapped from the marker, and the metadata is unset up to and
\* including that call (and for good when the marker ends the source, in
\* which case no further row is returned either).
C3_ErrorMarkerRaisesMapped ==
    \A i \in Instances : \A k \in 0..Len(source[i]) :
        ErrorAfter(source[i], k) =>
            LET log == StreamLog(vr[i])
            IN  /\ \A j \in 1..Len(log) :
                       /\ j <= k => log[j].kind = "row" /\ log[j].row = j
                       /\ j = k + 1 => log[j].kind = build_exception(source[i][k + 1])
                       /\ (j > k + 1 /\ Len(source[i]) = k + 1) => log[j].kind # "row"
                /\ (Len(log) <= k + 1 \/ Len(source[i]) = k + 1) => vr[i].metadata = "None"

\* Two rows were returned and the third call raised the mapped exception.
C3_Witness ==
    \E i \in Instances :
        /\ ErrorAfter(source[i], 2)
        /\ Len(StreamLog(vr[i])) = 3
        /\ vr[i].outcome.kind = "DesignDocumentNotFoundException"

\* The first item is the marker: no row, the first call raises.
C3_WitnessFirstItem ==
    \E i \in Instances :
        /\ ErrorAfter(source[i], 0)
        /\ Len(StreamLog(vr[i])) = 1
        /\ vr[i].outcome.kind = "ViewNotFoundException"

\* C4 (as claimed): whenever a __next__ call on the submitted request raises
\* an exception other than StopIteration, the request is Done afterwards.
C4_ErrorLeavesDone ==
    \A i \in Instances :
        LET log == vr[i].results
        IN  (/\ log # <<>>
             /\ log[Len(log)].started
             /\ log[Len(log)].kind \in NextErrors)
            => vr[i].done_streaming

\* C5 (as claimed): the metadata retrieval has been performed exactly once if
\* the None end sentinel has been observed, and never otherwise.
C5_MetadataPullIffSentinel ==
    \A i \in Instances :
        MetadataPulls(vr[i]) = IF SentinelObserved(vr[i], source[i]) THEN 1 ELSE 0

\* C5 (amended): the metadata retrieval has been performed exactly once if the
\* row step has ended with StopIteration (the None end sentinel was pulled or
\* the raw source raised StopIteration), and never otherwise; it is the last
\* pull made, and no call that raised a mapped marker exception made it.
C5_MetadataPullIffEndSignalled ==
    \A i \in Instances :
        LET st == vr[i]
            n  == Len(st.pulled_by)
        IN  /\ MetadataPulls(st) = IF EndSignalled(st, source[i]) THEN 1 ELSE 0
            /\ \A k \in 1..n : st.pulled_by[k] = "metadata" =>
                   /\ k = n
                   /\ k > 1
                   /\ st.pulled_by[k - 1] = "row"
                   /\ ItemAt(source[i], k - 1) \in {"None", "StopIteration"}

\* The sentinel was observed, the one metadata retrieval was made, and a later
\* __next__ call on the Done request has made no further one.
C5_Witness ==
    \E i \in Instances :
        /\ SentinelObserved(vr[i], source[i])
        /\ MetadataPulls(vr[i]) = 1
        /\ vr[i].outcome.op = "next"
        /\ vr[i].outcome.kind = "None"

\* C6 (as claimed): the metadata is populated only if the request is Done and
\* Done was reached by observing the None end sentinel.
C6_MetadataOnlyAfterSentinel ==
    \A i \in Instances :
        vr[i].metadata = "ViewMetaData" =>
            vr[i].done_streaming /\ SentinelObserved(vr[i], source[i])

\* C6 (amended): the metadata is populated only if the request is Done, Done
\* was reached by the row step ending with StopIteration (None sentinel or a
\* StopIteration of the raw source), and that call signalled the normal end of
\* the sequence; it is unset while NotStarted or Streaming.
C6_MetadataOnlyAfterEnd ==
    \A i \in Instances :
        LET st == vr[i]
        IN  /\ st.metadata = "ViewMetaData" =>
                   /\ st.done_streaming
                   /\ st.started_streaming
                   /\ EndSignalled(st, source[i])
                   /\ \E k \in 1..Len(st.results) : st.results[k].kind = "StopIteration"
            /\ ~st.done_streaming => st.metadata = "None"
            /\ (\A k \in 1..Len(st.results) : st.results[k].kind # "StopIteration")
                   => st.metadata = "None"

\* The metadata is populated on a Done request.
C6_Witness ==
    \E i \in Instances :
        /\ vr[i].metadata = "ViewMetaData"
        /\ vr[i].done_streaming
        /\ vr[i].outcome.op = "next"
        /\ vr[i].outcome.kind = "StopIteration"

\* C7 (as claimed): a __next__ call on a NotStarted request submits the query
\* exactly once and pulls the first item: once any __next__ call has been
\* made, the request is started, submitted once, and the source pulled.
C7_NextSubmitsFirst ==
    \A i \in Instances :
        vr[i].results # <<>> =>
            /\ vr[i].started_streaming
            /\ vr[i].submits = 1
            /\ Len(vr[i].pulled_by) >= 1

\* C8 (as claimed): iter() on a request that is Streaming (started, not Done,
\* every __next__ call so far having returned a row) raises
\* AlreadyQueriedException.
C8_IterWhileStreamingFails ==
    [][\A i \in Instances :
          (/\ vr[i].started_streaming
           /\ ~vr[i].done_streaming
           /\ \A k \in 1..Len(vr[i].results) : vr[i].results[k].kind = "row"
           /\ vr'[i] # vr[i]
           /\ vr'[i].outcome.op = "iter")
          => vr'[i].outcome.kind = "AlreadyQueriedException"]_vars

\* C8 (amended): iter() submits the query only on a NotStarted request; on a
\* Streaming request it returns the iterator itself without an error, without
\* submitting again and without touching the raw source.
C8_IterWhileStreamingReturnsSelf ==
    [][\A i \in Instances :
          (/\ ~vr[i].done_streaming
           /\ vr'[i] # vr[i]
           /\ vr'[i].outcome.op = "iter")
          => /\ vr'[i].outcome.kind = "self"
             /\ vr'[i].started_streaming
             /\ vr'[i].submits = IF vr[i].started_streaming THEN vr[i].submits ELSE 1
             /\ vr'[i].pulled_by = vr[i].pulled_by
             /\ vr'[i].results = vr[i].results]_vars

\* iter() was called again after a row had been returned, and returned self.
C8_Witness ==
    \E i \in Instances :
        /\ vr[i].outcome.op = "iter"
        /\ vr[i].outcome.kind = "self"
        /\ ~vr[i].done_streaming
        /\ \E k \in 1..Len(vr[i].results) : vr[i].results[k].kind = "row"

\* C9 (as claimed): a __next__ call on a Done request raises StopIteration or
\* AlreadyQueriedException; it returns nothing.
C9_NextAfterDoneRaises ==
    \A i \in Instances : \A k \in 1..Len(vr[i].results) :
        vr[i].results[k].done =>
            vr[i].results[k].kind \in {"StopIteration", "AlreadyQueriedException"}

\* C10: done_streaming never goes back to false, and no call made on a Done
\* request pulls from the raw source.
C10_DoneIsTerminal ==
    [][\A i \in Instances :
          vr[i].done_streaming =>
              /\ vr'[i].done_streaming
              /\ vr'[i].pos = vr[i].pos
              /\ vr'[i].pulled_by = vr[i].pulled_by
              /\ vr'[i].metadata = vr[i].metadata]_vars

\* __next__ has been called on a Done request.
C10_Witness ==
    \E i \in Instances :
        /\ vr[i].done_streaming
        /\ vr[i].results # <<>>
        /\ vr[i].results[Len(vr[i].results)].done

\* The rows __next__ has returned to the caller, in the order of the calls.
Delivered(st) ==
    LET rows == SelectSeq(st.results, LAMBDA e : e.kind = "row")
    IN  [k \in 1..Len(rows) |-> rows[k].row]

\* The data rows of a raw source (their payloads), in source order.
DataRows(src) == SelectSeq([k \in 1..Len(src) |-> k], LAMBDA k : src[k] = "row")

\* C11: the rows returned by the __next__ calls are, in order, the first data
\* rows of the raw source: no row is returned twice, skipped or reordered.
C11_DeliveredIsPrefixOfDataRows ==
    \A i \in Instances :
        LET d == Delivered(vr[i])
        IN  /\ Len(d) <= Len(DataRows(source[i]))
            /\ d = SubSeq(DataRows(source[i]), 1, Len(d))

\* Two rows separated by another item have been returned.
C11_Witness ==
    \E i \in Instances :
        /\ Len(Delivered(vr[i])) = 2
        /\ Delivered(vr[i])[2] = 3

\* The __next__ calls of a request made while it was Streaming; the j-th of
\* them is the call whose row step made the j-th pull of the raw source.
PullingCalls(st) == SelectSeq(st.results, LAMBDA e : e.started /\ ~e.done)

\* The exception a failing row step raises on an item, by the item's kind.
RowStepFailure(kind) ==
    IF kind = "Exception" THEN "Exception"
    ELSE IF kind \in {"badrow", "views_response"} THEN "DeserializeError"
    ELSE "none"

\* The exception a failing metadata retrieval raises on an item.
MetadataFailure(kind) ==
    IF kind \in {"Exception", "StopIteration"} THEN kind
    ELSE IF kind \in {"row", "badrow", "None"} THEN "AttributeError"
    ELSE "none"

\* C12: a __next__ call in which the pull, the deserialization or the
\* metadata retrieval raises a non-Couchbase exception (other than the
\* row step's StopIteration) raises InternalSDKException carrying that
\* exception's message; a CouchbaseException raised by the source is raised
\* unchanged; a call on a request whose source is unset is wrapped as well.
C12_OtherExceptionsAreWrapped ==
    \A i \in Instances :
        LET calls == PullingCalls(vr[i])
            src   == source[i]
        IN  /\ \A j \in 1..Len(calls) :
                   LET item == ItemAt(src, j)
                       next == ItemAt(src, j + 1)
                   IN  /\ RowStepFailure(item) # "none" =>
                              /\ calls[j].kind = "InternalSDKException"
                              /\ calls[j].msg = RowStepFailure(item)
                       /\ item = "CouchbaseException" =>
                              calls[j].kind = "CouchbaseException"
                       /\ (item \in {"None", "StopIteration"} /\ MetadataFailure(next) # "none") =>
                              /\ calls[j].kind = "InternalSDKException"
                              /\ calls[j].msg = MetadataFailure(next)
                       /\ (item \in {"None", "StopIteration"} /\ next = "CouchbaseException") =>
                              calls[j].kind = "CouchbaseException"
            /\ \A k \in 1..Len(vr[i].results) :
                   ~vr[i].results[k].started =>
                       /\ vr[i].results[k].kind = "InternalSDKException"
                       /\ vr[i].results[k].msg = "TypeError"

\* A row was returned and the next call wrapped a deserialization failure.
C12_Witness ==
    \E i \in Instances :
        /\ Len(PullingCalls(vr[i])) = 2
        /\ Len(source[i]) >= 2
        /\ source[i][1] = "row"
        /\ source[i][2] = "badrow"
        /\ vr[i].outcome.op = "next"
        /\ vr[i].outcome.kind = "InternalSDKException"

\* More calls than one instance needs to reach each of its states.
AloneDepth == 4 * (MaxCalls + 2)

\* The states one instance reaches within n calls after `frontier` when it is
\* used alone on the raw source src.
RECURSIVE ReachAlone(_, _, _, _)
ReachAlone(frontier, seen, src, n) ==
    IF frontier = {} \/ n = 0 THEN seen
    ELSE LET succ == UNION {{__iter__(st), metadata(st)}
                            \cup (IF MayCall(st)
                                  THEN {__next__(st, src), execute(st, src)}
                                  ELSE {}) : st \in frontier}
             new  == succ \ seen
         IN  ReachAlone(new, seen \cup new, src, n - 1)

AloneStates == [src \in TwoSources |-> ReachAlone({NewRequest}, {NewRequest}, src, AloneDepth)]

CanonicalFields ==
    {"bucket_name", "document_name", "view_name", "namespace", "client_context_id",
     "debug", "end_key", "end_key_doc_id", "group", "group_level", "inclusive_end",
     "key", "keys", "limit", "on_error", "order", "reduce", "scan_consistency",
     "serializer", "skip", "start_key", "start_key_doc_id", "timeout"}

\* The options whose field has another name than the option.
RenamedOptions ==
    {<<"endkey", "end_key">>, <<"endkey_docid", "end_key_doc_id">>,
     <<"startkey", "start_key">>, <<"startkey_docid", "start_key_doc_id">>}

\* The field the encoded mapping is expected to hold for an option.
ExpectedField(o) ==
    IF \E p \in RenamedOptions : p[1] = o
    THEN (CHOOSE p \in RenamedOptions : p[1] = o)[2]
    ELSE o

\* C14: the mapping as_encodable() returns has exactly the three identity
\* fields and, for each option that was set, its canonical field: nothing
\* else, nothing missing, and no field for an option that was not set.
C14_EncodableHasExactlySetOptions ==
    DOMAIN params # {} =>
        /\ IdentityFields \subseteq DOMAIN params
        /\ DOMAIN params \subseteq CanonicalFields
        /\ Cardinality(DOMAIN params) = 3 + Cardinality(DOMAIN opts)
        /\ \A o \in OptionNames : o \in DOMAIN opts <=> ExpectedField(o) \in DOMAIN params

\* endkey and startkey_docid were set and encoded.
C14_Witness ==
    /\ DOMAIN opts = {"endkey", "startkey_docid"}
    /\ DOMAIN params = IdentityFields \cup {"end_key", "start_key_doc_id"}

\* The seconds of a timeout value, in tenths of a second.
TenthsOfSeconds(t) ==
    IF t.form = "timedelta" THEN t.seconds * 10 + t.microseconds \div 100000
    ELSE IF t.form = "int" THEN t.seconds * 10
    ELSE t.tenths

\* C15: a timeout given as a timedelta, as an int or as a float number of
\* seconds is encoded under "timeout" as the integer seconds x 1,000,000:
\* timedelta(seconds=20) and 20 give 20000000, and 25.5 gives 25500000.
C15_TimeoutInMicroseconds ==
    ("timeout" \in DOMAIN opts /\ DOMAIN params # {}) =>
        LET t == opts["timeout"]
            e == params["timeout"]
        IN  /\ e \in Nat
            /\ e * 10 = TenthsOfSeconds(t) * 1000000
            /\ t = [form |-> "timedelta", seconds |-> 20, microseconds |-> 0] => e = 20000000
            /\ t = [form |-> "int", seconds |-> 20] => e = 20000000
            /\ t = [form |-> "float", tenths |-> 255] => e = 25500000

\* The float 25.5 was encoded.
C15_Witness ==
    /\ "timeout" \in DOMAIN opts
    /\ opts["timeout"] = [form |-> "float", tenths |-> 255]
    /\ "timeout" \in DOMAIN params
    /\ params["timeout"] = 25500000

\* The pulls of the raw source made in a step.
PullsIn(before, after) == Len(after.pulled_by) - Len(before.pulled_by)

\* A step of instance i that is exactly one __next__ call.
OneNextCall(i) == Len(vr'[i].results) = Len(vr[i].results) + 1

\* C16 (as claimed): a __next__ call on a Streaming request pulls exactly one
\* item, plus exactly one more when that item is the None end sentinel and
\* only then; a call on a Done request pulls nothing.
C16_OnePullPlusTrailerOnSentinel ==
    [][\A i \in Instances :
          (OneNextCall(i) /\ vr[i].started_streaming) =>
              PullsIn(vr[i], vr'[i]) =
                  IF vr[i].done_streaming THEN 0
                  ELSE IF ItemAt(source[i], vr[i].pos + 1) = "None" THEN 2
                  ELSE 1]_vars

\* C16 (amended): a __next__ call on a Streaming request pulls exactly one
\* item, plus exactly one more (the metadata retrieval) when the row step
\* ends with StopIteration: the item is the None end sentinel or the pull
\* raises StopIteration.  A call that ends in a mapped marker exception or in
\* any other failure of the row step pulls once; a call on a Done request
\* pulls nothing.
C16_OnePullPlusTrailerOnEnd ==
    [][\A i \in Instances :
          (OneNextCall(i) /\ vr[i].started_streaming) =>
              PullsIn(vr[i], vr'[i]) =
                  IF vr[i].done_streaming THEN 0
                  ELSE IF ItemAt(source[i], vr[i].pos + 1) \in {"None", "StopIteration"} THEN 2
                  ELSE 1]_vars

\* A call failed in the row step after a row had been returned, one pull each.
C16_Witness ==
    \E i \in Instances :
        /\ Len(PullingCalls(vr[i])) = 2
        /\ vr[i].pulled_by = <<"row", "row">>
        /\ vr[i].results[Len(vr[i].results)].kind = "InternalSDKException"
        /\ vr[i].results[Len(vr[i].results)].msg = "Exception"

\* C17: on a raw source of finitely many rows, the end sentinel and the
\* trailer, a consumer that has started the iteration and keeps calling
\* next() reaches Done with StopIteration signalled, after no more calls than
\* the source has rows plus one, and the request never leaves Done.
C17_DrainTerminates ==
    /\ \A i \in Instances :
           vr[i].started_streaming ~>
               (/\ vr[i].done_streaming
                /\ \E k \in 1..Len(vr[i].results) : vr[i].results[k].kind = "StopIteration")
    /\ [](\A i \in Instances : Len(PullingCalls(vr[i])) <= Len(source[i]) - 1)
    /\ [][\A i \in Instances : vr[i].done_streaming => vr'[i].done_streaming]_vars

\* The longest complete source has been drained by single next() calls.
C17_Witness ==
    \E i \in Instances :
        /\ source[i] = Rows(MaxRows) \o <<"None", "views_response">>
        /\ vr[i].done_streaming
        /\ Len(PullingCalls(vr[i])) = MaxRows + 1
        /\ vr[i].outcome.op = "next"
        /\ vr[i].outcome.kind = "StopIteration"

\* What a __next__ call raises when its metadata retrieval pulls an item of
\* the given kind.
AfterMetadataPull(kind) ==
    IF kind = "views_response" THEN "StopIteration"
    ELSE IF kind = "CouchbaseException" THEN "CouchbaseException"
    ELSE IF kind \in ErrorMarkers THEN build_exception(kind)
    ELSE "InternalSDKException"

\* C18: a __next__ call that raised StopIteration has left the metadata
\* populated; when the metadata retrieval after the end of the rows fails,
\* the call raises that failure instead (a Couchbase exception unchanged,
\* anything else as InternalSDKException) and leaves the request Done with
\* the metadata unset.
C18_EndOnlyWithMetadata ==
    \A i \in Instances :
        LET calls == PullingCalls(vr[i])
        IN  /\ (\E k \in 1..Len(vr[i].results) : vr[i].results[k].kind = "StopIteration")
                   => vr[i].metadata = "ViewMetaData" /\ vr[i].done_streaming
            /\ \A j \in 1..Len(calls) :
                   ItemAt(source[i], j) \in {"None", "StopIteration"} =>
                       /\ calls[j].kind = AfterMetadataPull(ItemAt(source[i], j + 1))
                       /\ vr[i].done_streaming
                       /\ calls[j].kind # "StopIteration" => vr[i].metadata = "None"

\* The metadata retrieval after the sentinel failed: Done, no metadata, an error raised.
C18_Witness ==
    \E i \in Instances :
        /\ source[i] = <<"row", "None", "Exception">>
        /\ vr[i].done_streaming
        /\ vr[i].metadata = "None"
        /\ vr[i].outcome.op = "next"
        /\ vr[i].outcome.kind = "InternalSDKException"

\* C19: the query of a request is submitted at most once, by the iter() (made
\* directly or by execute()) that finds the request NotStarted; no __next__
\* call submits, and a step that does not submit leaves a started request
\* started with its raw source position only ever advancing.
C19_SubmittedAtMostOnce ==
    /\ [](\A i \in Instances :
             /\ vr[i].submits <= 1
             /\ vr[i].submits = 1 <=> vr[i].started_streaming
             /\ vr[i].started_streaming <=> vr[i].streaming_result = "stream")
    /\ [][\A i \in Instances :
             /\ vr'[i].submits # vr[i].submits =>
                    /\ ~vr[i].started_streaming
                    /\ vr'[i].outcome.op \in {"iter", "execute"}
             /\ vr'[i].pos >= vr[i].pos
             /\ (vr'[i].outcome.op = "iter" /\ vr'[i] # vr[i]) =>
                    /\ vr'[i].pos = vr[i].pos
                    /\ vr'[i].results = vr[i].results]_vars

\* execute() was called on a request that iter() and next() had already started.
C19_Witness ==
    \E i \in Instances :
        /\ vr[i].submits = 1
        /\ vr[i].outcome.op = "execute"
        /\ vr[i].outcome.kind = "list"
        /\ Len(vr[i].outcome.rows) = 1
        /\ Len(Delivered(vr[i])) = 2

\* The raw source src with the None end sentinel where its k-th pull raised
\* StopIteration (in place of the raising item, or after the last item of an
\* exhausted source).
WithSentinelAt(src, k) ==
    IF k <= Len(src) THEN [src EXCEPT ![k] = "None"] ELSE Append(src, "None")

\* C20: a __next__ call on a Streaming request whose row step raises
\* StopIteration of its own (the pull of the raw source, or the handling of
\* the pulled item, raises it) does exactly what it does on the None end
\* sentinel in that place: the request is Done and the metadata retrieval
\* makes the next pull; the failure is not wrapped as an InternalSDKException
\* of the row step.  When the metadata pull finds the trailer the call raises
\* StopIteration with the metadata populated; when it finds the source
\* exhausted the call raises InternalSDKException (carrying that
\* StopIteration) with the request Done and the metadata unset.
C20_SourceEndIsTreatedAsSentinel ==
    [][\A i \in Instances :
          (/\ OneNextCall(i)
           /\ vr'[i].outcome.op = "next"
           /\ vr[i].started_streaming
           /\ ~vr[i].done_streaming
           /\ ItemAt(source[i], vr[i].pos + 1) = "StopIteration") =>
              LET after == ItemAt(source[i], vr[i].pos + 2)
                  call  == vr'[i].results[Len(vr'[i].results)]
              IN  /\ vr'[i] = __next__(vr[i], WithSentinelAt(source[i], vr[i].pos + 1))
                  /\ vr'[i].done_streaming
                  /\ vr'[i].pulled_by = vr[i].pulled_by \o <<"row", "metadata">>
                  /\ call.kind = AfterMetadataPull(after)
                  /\ after = "views_response" =>
                         call.kind = "StopIteration" /\ vr'[i].metadata = "ViewMetaData"
                  /\ after = "StopIteration" =>
                         /\ call.kind = "InternalSDKException"
                         /\ call.msg = "StopIteration"
                         /\ vr'[i].metadata = "None"]_vars

\* The source ran out after one row without a sentinel: the second __next__
\* call made the row pull and the metadata pull, and raised
\* InternalSDKException with the request Done and the metadata unset.
C20_Witness ==
    \E i \in Instances :
        /\ source[i] = <<"row">>
        /\ vr[i].pulled_by = <<"row", "row", "metadata">>
        /\ vr[i].done_streaming
        /\ vr[i].metadata = "None"
        /\ vr[i].outcome.op = "next"
        /\ vr[i].outcome.kind = "InternalSDKException"
        /\ vr[i].results[Len(vr[i].results)].msg = "StopIteration"

\* The request after n further next() calls by the consumer.
RECURSIVE NextTimes(_, _, _)
NextTimes(st, src, n) ==
    IF n = 0 THEN st ELSE NextTimes(__next__(st, src), src, n - 1)

\* The rows the n last __next__ calls of a request returned.
LastDelivered(st, n) ==
    LET calls == SubSeq(st.results, Len(st.results) - n + 1, Len(st.results))
        rows  == SelectSeq(calls, LAMBDA e : e.kind = "row")
    IN  [k \in 1..Len(rows) |-> rows[k].row]

\* C21: execute() does what iter() followed by next() calls up to the first
\* one that does not return a row does: it leaves the request as that
\* iteration leaves it, returns the rows those calls returned when the last
\* call raised StopIteration, and raises what the last call raised otherwise,
\* returning nothing.  On a NotStarted request whose source is N rows, the
\* end sentinel and the trailer it returns rows 1..N and leaves the request
\* Done with the metadata populated; on one whose source has an error marker
\* after k rows it raises the exception mapped from the marker; on a Done
\* request it raises AlreadyQueriedException and changes nothing.
C21_ExecuteIsFullDrain ==
    [][\A i \in Instances :
          (vr'[i].outcome.op = "execute" /\ vr'[i] # vr[i]) =>
              LET before == vr[i]
                  after  == vr'[i]
                  src    == source[i]
                  n      == Len(after.results) - Len(before.results)
                  it     == NextTimes(__iter__(before), src, n)
              IN  /\ before.done_streaming =>
                         after = [before EXCEPT !.outcome =
                                     Outcome("execute", "AlreadyQueriedException", 0, <<>>)]
                  /\ ~before.done_streaming =>
                         /\ n >= 1
                         /\ [after EXCEPT !.outcome = it.outcome] = it
                         /\ \A k \in 1..(n - 1) :
                                after.results[Len(before.results) + k].kind = "row"
                         /\ it.outcome.kind # "row"
                         /\ after.outcome =
                                IF it.outcome.kind = "StopIteration"
                                THEN Outcome("execute", "list", 0, LastDelivered(after, n))
                                ELSE Outcome("execute", it.outcome.kind, 0, <<>>)
                  /\ ~before.started_streaming =>
                         /\ \A m \in 0..Len(src) :
                                WellFormed(src, m) =>
                                    /\ after.outcome =
                                           Outcome("execute", "list", 0, [k \in 1..m |-> k])
                                    /\ after.done_streaming
                                    /\ after.metadata = "ViewMetaData"
                         /\ \A k \in 0..Len(src) :
                                ErrorAfter(src, k) =>
                                    /\ after.outcome =
                                           Outcome("execute", build_exception(src[k + 1]), 0, <<>>)
                                    /\ after.metadata = "None"]_vars

\* execute() on a NotStarted request met an error marker after two rows: it
\* raised the mapped exception and returned no list, the two rows having
\* been pulled.
C21_Witness ==
    \E i \in Instances :
        /\ ErrorAfter(source[i], 2)
        /\ vr[i].outcome = Outcome("execute", build_exception(source[i][3]), 0, <<>>)
        /\ vr[i].next_calls = 3
        /\ Len(vr[i].results) = 3
        /\ LastDelivered(vr[i], 3) = <<1, 2>>

====
